---- MODULE Spec2Model ----
(***************************************************************************)
(* stream-broadcast: a FusedStream fanned out to many handles.             *)
(*                                                                         *)
(* StreamBroadcast (strong) and WeakStreamBroadcast (weak) handles share   *)
(* one StreamBroadcastState behind Arc<Mutex<..>>.  Everything done while  *)
(* the Mutex is held is one step.  Weak::upgrade and the locked section    *)
(* that follows it are two steps: other threads run between them, and the  *)
(* temporary Arc is an owner of the state during that time.                *)
(*                                                                         *)
(* Spec lets every handle be polled at any time; SpecTasks drives each     *)
(* strong handle by a task that polls again only after an item or after    *)
(* its Waker was woken, under a fair executor.                             *)
(***************************************************************************)
EXTENDS Integers, Sequences, FiniteSets, TLC

\* ---------------------------------------------------------------- bounds
MaxIds == 3        \* handles ever created (values handed out by create_id)
MaxSize == 2       \* largest `size` given to StreamBroadcast::new
MaxItems == 2      \* largest number of items of the wrapped stream
MaxWakable == 2    \* entries kept in `wakable` before Pending polls stop
MaxEnds == 2       \* how far past the stream's length a pos is pushed

\* tests/broadcast.rs, indicates_skipped_entries:
\* StreamBroadcast::new(futures::stream::iter(0..4).fuse(), 3)
TestSize == 3
TestItems == 4

Ids == 0 .. (MaxIds - 1)

VARIABLES
    size,        \* the `size` argument of StreamBroadcast::new
    stream,      \* the wrapped stream: iter(0..len), possibly delayed, fused;
                 \* `late`: its end can be Pending first (a channel's close)
    global_pos,  \* StreamBroadcastState.global_pos
    cache,       \* StreamBroadcastState.cache (a Vec: 1-based here)
    wakable,     \* StreamBroadcastState.wakable: ids, in push order
    alive,       \* the Arc's value has not been dropped
    poisoned,    \* a panic happened while the Mutex was held
    ID_COUNTER,  \* create_id's static
    kind,        \* per id: "none" | "strong" | "weak" | "dropped"
    pos,         \* per id: the handle's pos
    pc,          \* per id: "idle" | "upgraded" | "cloning"
    woken,       \* ids whose registered Waker was woken and that have not polled since
    avail,       \* the stream has its next answer at hand (task scheduling only)
    \* history, read by the properties only
    yielded,     \* the items the stream has yielded to the state, in order
    res,         \* per id: what the handle's last poll_next returned
    cnt,         \* per id: number of items poll_next has returned
    sum,         \* per id: sum of (offset + 1) over those items
    start,       \* per id: pos at creation
    early,       \* per id: created while global_pos was 0
    how,         \* per id: the operation that made the handle
    ended,       \* per id: poll_next has returned None, here or in an ancestor
    lagged,      \* some handle has been more than capacity behind
    late_item    \* an item was handed out after the stream had ended

vars == << size, stream, global_pos, cache, wakable, alive, poisoned,
           ID_COUNTER, kind, pos, pc, woken, avail, yielded, res, cnt, sum,
           start, early, how, ended, lagged,
                    late_item >>

core == << stream, global_pos, cache, wakable >>

\* ------------------------------------------------------------ the stream
\* futures::stream::iter(0..len): the i-th item is i
Item(i) == i

\* What stream.poll_next(cx) answers; `ready` is whether the inner stream
\* has its next answer at hand (tests: iter is always ready, then(sleep) is
\* not).  The end of an iterator is at hand as soon as it is reached; the
\* end of a `late` stream is an answer to wait for like an item.
\* Fuse answers None without polling the inner stream once it is done.
StreamPoll(ready) ==
    IF stream.done \/ (stream.next = stream.len /\ (ready \/ ~stream.late))
    THEN [tag |-> "none", item |-> 0, stream |-> [stream EXCEPT !.done = TRUE]]
    ELSE IF ready
    THEN [tag |-> "some", item |-> Item(stream.next),
          stream |-> [stream EXCEPT !.next = @ + 1]]
    ELSE [tag |-> "pending", item |-> 0, stream |-> stream]

\* --------------------------------------------------- StreamBroadcastState
\* Vec::with_capacity(size).capacity(): exactly `size` for a sized item type
capacity == size

behind_never(request_pos) == FALSE

\* if *this.global_pos > request_pos: the handle is behind the head
behind(request_pos) == global_pos > request_pos

return_pos_unclamped(request_pos) == request_pos

return_pos_early(request_pos) ==
    IF global_pos - request_pos > capacity - 1
    THEN global_pos - (capacity - 1)
    ELSE request_pos

return_pos(request_pos) ==
    IF global_pos - request_pos > capacity
    THEN global_pos - capacity
    ELSE request_pos

\* the Vec index (0-based in the source) of a position
slot(p) == p % capacity

\* this.cache[(return_pos % cap) as usize].clone()
cache_read(p) == cache[slot(p) + 1]

cache_write_stale(x) ==
    IF Len(cache) < capacity
    THEN Append(cache, x)
    ELSE cache

\* push while the Vec is not full, overwrite afterwards
cache_write(x) ==
    IF Len(cache) < capacity
    THEN Append(cache, x)
    ELSE [cache EXCEPT ![slot(global_pos) + 1] = x]

drain_woken_all(id) == { wakable[i] : i \in 1 .. Len(wakable) }

\* wakable.drain(..).for_each(|(k, w)| if k != id { w.wake() })
drain_woken(id) == { wakable[i] : i \in 1 .. Len(wakable) } \ {id}

\* wakable.push((id, waker))
register(id) == Append(wakable, id)

\* StreamBroadcastState::poll: the answer and the state it leaves.
\*   tag "some": Ready(Some((new_pos, item)))   "none": Ready(None)
\*   tag "pending": Pending                     "panic": the thread panics
poll(request_pos, id, ready) ==
    IF behind(request_pos)
    THEN [tag |-> "some", new_pos |-> return_pos(request_pos) + 1,
          item |-> cache_read(return_pos(request_pos)),
          stream |-> stream, global_pos |-> global_pos, cache |-> cache,
          wakable |-> wakable, wake |-> {}]
    ELSE LET s == StreamPoll(ready) IN
         CASE s.tag = "some" /\ capacity = 0 ->
                  \* len() < 0 is false, global_pos % 0 panics
                  [tag |-> "panic", new_pos |-> 0, item |-> 0,
                   stream |-> s.stream, global_pos |-> global_pos,
                   cache |-> cache, wakable |-> << >>,
                   wake |-> drain_woken(id)]
           [] s.tag = "some" /\ capacity > 0 ->
                  [tag |-> "some", new_pos |-> global_pos + 1, item |-> s.item,
                   stream |-> s.stream, global_pos |-> global_pos + 1,
                   cache |-> cache_write(s.item), wakable |-> << >>,
                   wake |-> drain_woken(id)]
           [] s.tag = "none" ->
                  [tag |-> "none", new_pos |-> 0, item |-> 0,
                   stream |-> s.stream, global_pos |-> global_pos,
                   cache |-> cache, wakable |-> wakable, wake |-> {}]
           [] OTHER ->
                  [tag |-> "pending", new_pos |-> 0, item |-> 0,
                   stream |-> s.stream, global_pos |-> global_pos,
                   cache |-> cache, wakable |-> register(id), wake |-> {}]

\* ----------------------------------------------------------- broadast_next
offset_plain(new_pos, p) == new_pos - p

\* let offset = new_pos - *pos - 1
offset(new_pos, p) == new_pos - p - 1

end_pos_two(p) == p + 2

\* Ready(None) => *pos += 1
end_pos(p) == p + 1

\* what a handle's last poll_next returned: "new" (not polled yet), "item"
\* (Some((offset, item))), "end" (None from the state), "gone" (None of a
\* weak handle whose state is gone), "pending", "panic"; for an item, also
\* how far behind global_pos the handle was when it polled
Res(t, o, x, b) == [tag |-> t, offset |-> o, item |-> x, behind |-> b]

NoRes == Res("new", 0, 0, 0)

\* -------------------------------------------------------------- ownership
OwnersAll(k, c) == { h \in Ids : k[h] \in {"strong", "weak"} \/ c[h] \in {"upgraded", "cloning"} }

\* the holders of an Arc of the state: the StreamBroadcast handles, and the
\* weak operations between their state.upgrade() and their return
Owners(k, c) == { h \in Ids : k[h] = "strong" \/ c[h] \in {"upgraded", "cloning"} }

Exists(h) == kind[h] \in {"strong", "weak"}

Lagging(g, k, p) ==
    \E h \in Ids : k[h] \in {"strong", "weak"} /\ pc[h] # "cloning" /\ g - p[h] > capacity

\* create_id: ID_COUNTER.fetch_add(1, SeqCst)
create_id == ID_COUNTER

\* ------------------------------------------------------------------ Init
InitWith(sz, len, late) ==
    /\ size = sz
    /\ stream = [next |-> 0, len |-> len, done |-> FALSE, late |-> late]
    /\ global_pos = 0
    /\ cache = << >>
    /\ wakable = << >>
    /\ alive = TRUE
    /\ poisoned = FALSE
    /\ ID_COUNTER = 1
    /\ kind = [h \in Ids |-> IF h = 0 THEN "strong" ELSE "none"]
    /\ pos = [h \in Ids |-> 0]
    /\ pc = [h \in Ids |-> "idle"]
    /\ woken = {}
    /\ avail = FALSE
    /\ yielded = << >>
    /\ res = [h \in Ids |-> NoRes]
    /\ cnt = [h \in Ids |-> 0]
    /\ sum = [h \in Ids |-> 0]
    /\ start = [h \in Ids |-> 0]
    /\ early = [h \in Ids |-> h = 0]
    /\ how = [h \in Ids |-> "new"]
    /\ ended = [h \in Ids |-> FALSE]
    /\ lagged = FALSE
    /\ late_item = FALSE

\* StreamBroadcast::new(stream, size), size >= 1
Init == \E sz \in 1 .. MaxSize, len \in 0 .. MaxItems : InitWith(sz, len, FALSE)

\* StreamBroadcast::new(stream, 0)
InitZero == \E len \in 0 .. MaxItems : InitWith(0, len, FALSE)

\* StreamBroadcast::new(iter(0..4).fuse(), 3)
InitTest == InitWith(TestSize, TestItems, FALSE)

\* StreamBroadcast::new over a stream whose end comes late, size >= 1
InitLate == \E sz \in 1 .. MaxSize, len \in 0 .. MaxItems : InitWith(sz, len, TRUE)

\* ------------------------------------------------- poll_next, lock held
\* broadast_next(lock, cx, this.pos, *this.id) for handle h
BroadcastNext(h, ready) ==
    LET r == poll(pos[h], h, ready)
        grows == r.tag = "some" /\ r.new_pos > pos[h]
        tag == CASE r.tag = "some" /\ grows -> "item"
                 [] r.tag = "some" /\ ~grows -> "panic"   \* debug_assert
                 [] r.tag = "none" -> "end"
                 [] OTHER -> r.tag
        off == IF tag = "item" THEN offset(r.new_pos, pos[h]) ELSE 0
    IN  /\ r.tag = "pending" => Len(wakable) < MaxWakable
        /\ r.tag = "none" => pos[h] < stream.len + MaxEnds
        /\ stream' = r.stream
        /\ global_pos' = r.global_pos
        /\ cache' = r.cache
        /\ wakable' = r.wakable
        /\ poisoned' = (tag = "panic")
        /\ woken' = (woken \ {h}) \cup r.wake
        /\ pos' = [pos EXCEPT ![h] = CASE tag = "item" -> r.new_pos
                                        [] tag = "end" -> end_pos(@)
                                        [] OTHER -> @]
        /\ yielded' = IF r.stream.next > stream.next
                      THEN Append(yielded, Item(stream.next)) ELSE yielded
        /\ res' = [res EXCEPT ![h] =
                      IF tag = "item" THEN Res(tag, off, r.item, global_pos - pos[h])
                                      ELSE Res(tag, 0, 0, 0)]
        /\ cnt' = [cnt EXCEPT ![h] = IF tag = "item" THEN @ + 1 ELSE @]
        /\ sum' = [sum EXCEPT ![h] = IF tag = "item" THEN @ + off + 1 ELSE @]
        /\ ended' = [ended EXCEPT ![h] = @ \/ tag = "end"]
        /\ lagged' = (lagged \/ Lagging(r.global_pos, kind, pos'))
        /\ late_item' = (late_item \/ (tag = "item" /\ stream.done))

\* impl FusedStream: self.state.lock().unwrap().stream.is_terminated(),
\* and true for a weak handle whose state is gone; Fuse is terminated once
\* it has answered None
is_terminated(h) ==
    IF kind[h] = "weak" /\ ~alive THEN TRUE ELSE stream.done

\* impl Stream for StreamBroadcast: poll_next
StrongPoll(h) ==
    /\ kind[h] = "strong" /\ pc[h] = "idle" /\ ~poisoned
    /\ \E ready \in BOOLEAN : BroadcastNext(h, ready)
    /\ UNCHANGED << size, alive, ID_COUNTER, kind, pc, avail, start, early, how >>

weak_none_pending(h) == Res("pending", 0, 0, 0)

\* let Some(state) = this.state.upgrade() else { return Poll::Ready(None) }
weak_none(h) == Res("gone", 0, 0, 0)

\* impl Stream for WeakStreamBroadcast: poll_next, up to this.state.upgrade()
WeakPollUpgrade(h) ==
    /\ kind[h] = "weak" /\ pc[h] = "idle"
    /\ IF alive
       THEN /\ pc' = [pc EXCEPT ![h] = "upgraded"]
            /\ UNCHANGED << res, ended >>
       ELSE /\ res' = [res EXCEPT ![h] = weak_none(h)]
            /\ ended' = [ended EXCEPT ![h] = TRUE]
            /\ UNCHANGED pc
    /\ UNCHANGED << size, core, alive, poisoned, ID_COUNTER, kind, pos, woken,
                    avail, yielded, cnt, sum, start, early, how, lagged,
                    late_item >>

\* ... and from state.lock() to the return, where the temporary Arc is dropped
WeakPollLocked(h) ==
    /\ kind[h] = "weak" /\ pc[h] = "upgraded"
    /\ pc' = [pc EXCEPT ![h] = "idle"]
    /\ alive' = (Owners(kind, pc') # {})
    /\ IF poisoned
       THEN UNCHANGED << core, poisoned, pos, woken, yielded, res, cnt, sum,
                         ended, lagged,
                    late_item >>
       ELSE \E ready \in BOOLEAN : BroadcastNext(h, ready)
    /\ UNCHANGED << size, ID_COUNTER, kind, avail, start, early, how >>

\* ------------------------------------------------------ making handles
\* the fields of handle n, made from handle h by operation op at position p
Make(n, h, k, p, c, op) ==
    /\ ID_COUNTER < MaxIds
    /\ n = create_id
    /\ ID_COUNTER' = ID_COUNTER + 1
    /\ kind' = [kind EXCEPT ![n] = k]
    /\ pos' = [pos EXCEPT ![n] = p]
    /\ pc' = [pc EXCEPT ![n] = c]
    /\ start' = [start EXCEPT ![n] = p]
    /\ early' = [early EXCEPT ![n] = (global_pos = 0)]
    /\ how' = [how EXCEPT ![n] = op]
    /\ ended' = [ended EXCEPT ![n] = ended[h]]
    /\ UNCHANGED << size, core, alive, poisoned, woken, avail, yielded, res, cnt,
                    sum, lagged,
                    late_item >>

clone_pos_zero(h) == 0

clone_pos_self(h) == pos[h]

\* the cursor a clone starts at: self.state.lock().unwrap().global_pos
clone_pos(h) == global_pos

\* impl Clone for StreamBroadcast
Clone(h) ==
    /\ kind[h] = "strong" /\ pc[h] = "idle" /\ ~poisoned
    /\ \E n \in Ids : Make(n, h, "strong", clone_pos(h), "idle", "clone")

same_pos_zero(h) == 0

\* the cursor of a downgraded or upgraded handle: self.pos
same_pos(h) == pos[h]

\* StreamBroadcast::downgrade (and the deprecated weak)
Downgrade(h) ==
    /\ kind[h] = "strong" /\ pc[h] = "idle"
    /\ \E n \in Ids : Make(n, h, "weak", same_pos(h), "idle", "downgrade")

\* WeakStreamBroadcast::upgrade: Some(handle) while the Arc has an owner,
\* None (nothing changes) otherwise
Upgrade(h) ==
    /\ kind[h] = "weak" /\ pc[h] = "idle"
    /\ alive
    /\ \E n \in Ids : Make(n, h, "strong", same_pos(h), "idle", "upgrade")

\* impl Clone for WeakStreamBroadcast, up to self.state.upgrade();
\* .unwrap_or(0) when the state is gone
WeakCloneUpgrade(h) ==
    /\ kind[h] = "weak" /\ pc[h] = "idle"
    /\ \E n \in Ids : IF alive THEN Make(n, h, "weak", 0, "cloning", "wclone")
                               ELSE Make(n, h, "weak", 0, "idle", "wclone0")

\* ... and the closure |s| s.lock().unwrap().global_pos, after which the
\* temporary Arc is dropped; on a poisoned Mutex the clone panics
WeakCloneLocked(n) ==
    /\ kind[n] = "weak" /\ pc[n] = "cloning"
    /\ pc' = [pc EXCEPT ![n] = "idle"]
    /\ kind' = [kind EXCEPT ![n] = IF poisoned THEN "dropped" ELSE @]
    /\ pos' = [pos EXCEPT ![n] = IF poisoned THEN 0 ELSE clone_pos(n)]
    /\ start' = [start EXCEPT ![n] = IF poisoned THEN 0 ELSE clone_pos(n)]
    /\ early' = [early EXCEPT ![n] = ~poisoned /\ global_pos = 0]
    /\ how' = [how EXCEPT ![n] = IF poisoned THEN "new" ELSE @]
    /\ ended' = [ended EXCEPT ![n] = ~poisoned /\ @]
    /\ alive' = (Owners(kind', pc') # {})
    /\ UNCHANGED << size, core, poisoned, ID_COUNTER, woken, avail, yielded, res,
                    cnt, sum, lagged,
                    late_item >>

\* dropping a handle; the state goes with the last owner.  What the
\* history kept about the handle is forgotten with it.
Drop(h) ==
    /\ Exists(h) /\ pc[h] = "idle"
    /\ kind' = [kind EXCEPT ![h] = "dropped"]
    /\ alive' = (alive /\ Owners(kind', pc) # {})
    /\ pos' = [pos EXCEPT ![h] = 0]
    /\ woken' = woken \ {h}
    /\ res' = [res EXCEPT ![h] = NoRes]
    /\ cnt' = [cnt EXCEPT ![h] = 0]
    /\ sum' = [sum EXCEPT ![h] = 0]
    /\ start' = [start EXCEPT ![h] = 0]
    /\ early' = [early EXCEPT ![h] = FALSE]
    /\ how' = [how EXCEPT ![h] = "new"]
    /\ ended' = [ended EXCEPT ![h] = FALSE]
    /\ UNCHANGED << size, core, poisoned, ID_COUNTER, pc, avail, yielded, lagged,
                    late_item >>

\* ------------------------------------------------ handles driven by tasks
\* A task awaits its handle in a loop (collect, count): it polls again after
\* an item, waits for its Waker after Pending, and is done after None.
Runnable(h) == res[h].tag \in {"new", "item"} \/ h \in woken

\* the Waker the stream holds: the cx of the last poll it answered Pending
stream_waker == IF wakable = << >> THEN {} ELSE {wakable[Len(wakable)]}

\* the task of a strong handle polls it when it is runnable; the stream
\* answers with what it has at hand
TaskPoll(h) ==
    /\ kind[h] = "strong" /\ pc[h] = "idle" /\ ~poisoned
    /\ Runnable(h)
    /\ BroadcastNext(h, avail)
    /\ avail' = (avail /\ stream' = stream)
    /\ UNCHANGED << size, alive, ID_COUNTER, kind, pc, start, early, how >>

\* the stream's next answer (an item, or the end) arrives: it wakes the
\* Waker it was last polled with
StreamReady ==
    /\ alive /\ ~avail /\ ~stream.done
    /\ avail' = TRUE
    /\ woken' = woken \cup stream_waker
    /\ UNCHANGED << size, core, alive, poisoned, ID_COUNTER, kind, pos, pc,
                    yielded, res, cnt, sum, start, early, how, ended, lagged,
                    late_item >>

Next ==
    \E h \in Ids :
        \/ StrongPoll(h)
        \/ WeakPollUpgrade(h)
        \/ WeakPollLocked(h)
        \/ Clone(h)
        \/ Downgrade(h)
        \/ Upgrade(h)
        \/ WeakCloneUpgrade(h)
        \/ WeakCloneLocked(h)
        \/ Drop(h)

\* the operations of tests/broadcast.rs, indicates_skipped_entries
NextTest ==
    \E h \in Ids :
        \/ StrongPoll(h)
        \/ Clone(h)
        \/ Drop(h)

\* strong handles, each driven by a task of its own
NextTasks ==
    \/ StreamReady
    \/ \E h \in Ids :
           \/ TaskPoll(h)
           \/ Clone(h)
           \/ Drop(h)

Spec == Init /\ [][Next]_vars

SpecZero == InitZero /\ [][Next]_vars

SpecTest == InitTest /\ [][NextTest]_vars

\* the executor runs every runnable task, and the stream's answers arrive
SpecTasks ==
    /\ InitLate /\ [][NextTasks]_vars
    /\ WF_vars(StreamReady)
    /\ \A h \in Ids : WF_vars(TaskPoll(h))

\* ---------------------------------------------------------------- claims
\* handle h is handed an item in this step
Got(h) == cnt'[h] = cnt[h] + 1

\* handle h is answered None by the state in this step
GotEnd(h) == kind[h] = kind'[h] /\ res'[h].tag = "end" /\ pos'[h] = pos[h] + 1

NoStrong == \A h \in Ids : kind[h] # "strong"

\* the skip rule of StreamBroadcastState::poll, from how far behind h was
SkipRule(h) ==
    res[h].offset = IF res[h].behind > capacity THEN res[h].behind - capacity ELSE 0

\* C1: every item a handle receives is the item the stream yielded at the
\* position its cursor is advanced to (the pos-th item yielded), and the
\* cursor moves forward: items come in the stream's order, no position is
\* seen twice, no stale or overwritten slot is read.
C1_ItemAtCursor ==
    [][\A h \in Ids : Got(h) =>
          /\ pos'[h] > pos[h]
          /\ pos'[h] <= Len(yielded')
          /\ res'[h].tag = "item"
          /\ res'[h].item = yielded'[pos'[h]]]_vars

\* a handle has read past evicted items from a cache that has wrapped
C1_Witness ==
    \E h \in Ids : /\ res[h].tag = "item" /\ res[h].offset > 0
                   /\ Len(yielded) > capacity
                   /\ res[h].item = yielded[pos[h]]

\* C2: while no handle has been more than capacity behind, a handle made
\* before the first item was yielded has received the first cnt items, in
\* order, each with offset 0, and has received all of them when the state
\* answers it None.
C2_AllItemsNoSkip ==
    \A h \in Ids : (Exists(h) /\ early[h] /\ ~lagged) =>
        /\ sum[h] = cnt[h]
        /\ res[h].tag = "item" => (res[h].offset = 0 /\ res[h].item = Item(cnt[h] - 1))
        /\ res[h].tag = "end" => cnt[h] = stream.len

\* two handles made before the first item have both received every item
\* of a stream longer than the capacity, and then None
C2_Witness ==
    \E h, k \in Ids :
        /\ h # k /\ early[h] /\ early[k] /\ ~lagged
        /\ res[h].tag = "end" /\ res[k].tag = "end"
        /\ stream.len > capacity
        /\ cnt[h] = stream.len /\ cnt[k] = stream.len

\* C3: the offset returned with an item is the number of items between the
\* old cursor and the served one: 0 when the handle was at most capacity
\* behind (exactly capacity too), behind - capacity otherwise; the sum of
\* (offset + 1) over a handle's reads is how far they moved its cursor, and
\* for a handle at the head the number of items yielded since its start.
C3_SkipCount ==
    /\ [](\A h \in Ids : (Exists(h) /\ pc[h] # "cloning") =>
            /\ res[h].tag = "item" => SkipRule(h)
            /\ res[h].tag \in {"new", "item", "pending"} => sum[h] = pos[h] - start[h]
            /\ pos[h] = global_pos => sum[h] = global_pos - start[h])
    /\ [][\A h \in Ids : Got(h) =>
            /\ res'[h].behind = global_pos - pos[h]
            /\ res'[h].offset = pos'[h] - pos[h] - 1
            /\ sum'[h] - sum[h] = pos'[h] - pos[h]]_vars

\* a handle that was more than capacity behind has skipped to the head
C3_Witness ==
    \E h \in Ids : /\ res[h].tag = "item" /\ res[h].behind > capacity
                   /\ res[h].offset = res[h].behind - capacity
                   /\ pos[h] = global_pos /\ sum[h] = global_pos - start[h]

\* the stalled handle of indicates_skipped_entries: made at 0, it read one
\* item, then polled when it was three behind a head of four
C4_Stalled(h) ==
    /\ size = TestSize /\ stream.len = TestItems
    /\ start[h] = 0 /\ cnt[h] = 2
    /\ res[h].tag = "item" /\ res[h].behind = 3

\* C4 as claimed: that poll returns an offset greater than 0
C4_Original == \A h \in Ids : C4_Stalled(h) => res[h].offset > 0

\* C4, amended: with capacity 3 and items [0, 1, 2, 3], a handle that read
\* item 0 and polls again after the other three items were produced is
\* exactly capacity behind: it receives item 1 with offset 0.
C4_StalledReadsNext ==
    \A h \in Ids : C4_Stalled(h) => (res[h].offset = 0 /\ res[h].item = Item(1))

C4_Witness == \E h \in Ids : C4_Stalled(h) /\ global_pos = TestItems

\* C5 as claimed: once the stream has answered None, no poll_next polls it
\* again (an answer None of the state is an answer of stream.poll_next).
C5_NeverPolledAgain == [][stream.done => \A h \in Ids : ~GotEnd(h)]_vars

\* C6: once poll_next has returned None to a handle, whatever it returns
\* later to that handle, or to a handle cloned, downgraded or upgraded from
\* it afterwards, is None again (never an item, never Pending).
C6_EndSticky ==
    \A h \in Ids : (Exists(h) /\ ended[h]) => res[h].tag \in {"end", "gone", "new"}

\* a handle was answered None repeatedly, and so was a clone made after
C6_Witness ==
    \E h, n \in Ids :
        /\ h # n /\ kind[h] = "strong" /\ res[h].tag = "end"
        /\ pos[h] = stream.len + MaxEnds /\ stream.len > 0
        /\ how[n] = "clone" /\ ended[n] /\ res[n].tag = "end" /\ start[n] = global_pos

\* handle n comes out of clone() in this step
Cloned(n) ==
    \/ how[n] # "clone" /\ how'[n] = "clone"
    \/ pc[n] = "cloning" /\ pc'[n] = "idle" /\ kind'[n] = "weak"

\* C7: a clone of a strong handle, or of a weak handle whose state is
\* alive, starts at global_pos as it is when the clone is made, whatever
\* the cloned handle's cursor; cloning leaves the state and the other
\* handles as they were, and the clone receives no item yielded before.
C7_CloneStartsAtHead ==
    /\ [][\A n \in Ids : Cloned(n) =>
            /\ pos'[n] = global_pos /\ start'[n] = global_pos
            /\ core' = core
            /\ \A h \in Ids \ {n} : pos'[h] = pos[h] /\ res'[h] = res[h]]_vars
    /\ [](\A n \in Ids : (how[n] \in {"clone", "wclone"} /\ res[n].tag = "item") =>
            /\ start[n] <= Len(yielded)
            /\ \A i \in 1 .. start[n] : res[n].item # yielded[i])

\* a clone made after the first item, of a stream another handle has not
\* read that far, has received a later item
C7_Witness ==
    \E n, h \in Ids :
        /\ n # h /\ how[n] = "clone" /\ start[n] > 0 /\ res[n].tag = "item"
        /\ kind[h] = "strong" /\ pos[h] < start[n]

C10_ZeroNeverDivides == size = 0 => ~poisoned

\* one of the two handles of test_parallel: the handle new returned, or a
\* clone of it made before the stream yielded its first item
Parallel(h) == kind[h] = "strong" /\ how[h] \in {"new", "clone"} /\ early[h]

\* C11 as claimed: each of the two handles has received all the items of
\* the stream when it is answered None.
C11_Original ==
    \A h \in Ids : (Parallel(h) /\ res[h].tag = "end") => cnt[h] = stream.len

\* C11, amended: the stream yields each item once; a handle polled when it
\* is at most capacity behind receives exactly the next item; every item a
\* handle receives is the one its reads and reported skips have counted up
\* to, so none comes twice; and when the handle is answered None every
\* item of the stream has been either received or counted in an offset:
\* all of them received if no offset was reported.
C11_ParallelDelivery ==
    /\ [](\A i, j \in 1 .. Len(yielded) : i < j => yielded[i] # yielded[j])
    /\ [](\A h \in Ids : Parallel(h) =>
            /\ res[h].tag = "item" => res[h].item = Item(sum[h] - 1)
            /\ res[h].tag = "end" => sum[h] = stream.len)
    /\ [][\A h \in Ids : (Parallel(h) /\ Got(h)) =>
            /\ sum'[h] > sum[h]
            /\ global_pos - pos[h] <= capacity => sum'[h] = sum[h] + 1]_vars

\* both handles were answered None: one received every item, the other
\* lagged and lost one, which its offsets report
C11_Witness ==
    \E h, k \in Ids :
        /\ Parallel(h) /\ Parallel(k) /\ how[h] = "new" /\ how[k] = "clone"
        /\ res[h].tag = "end" /\ res[k].tag = "end"
        /\ cnt[h] = stream.len /\ cnt[k] < stream.len /\ sum[k] = stream.len

\* the task of handle h was answered Pending and waits
Waiting(h) == kind[h] = "strong" /\ res[h].tag = "pending"

\* poll_next has answered the handle Ready (or the handle is gone)
Served(h) == kind[h] # "strong" \/ res[h].tag \in {"item", "end"}

\* C12 as claimed: under a fair executor, a handle answered Pending is,
\* once the stream has yielded an item it has not seen or has ended, woken
\* and answered Ready by its next poll_next.
C12_NoStarvation ==
    \A h \in Ids :
        (Waiting(h) /\ (global_pos > pos[h] \/ stream.done)) ~> Served(h)

\* C13: global_pos is the number of items the stream has yielded, and the
\* cache holds the last capacity of them, each in the slot of its position;
\* global_pos changes only by +1, in the step of one poll_next of a handle
\* that was not behind, which receives the item yielded and written to the
\* cache in that step while no other handle moves; the stream is polled
\* only by a handle that is not behind.
C13_SourceAtHeadOnly ==
    /\ [](/\ global_pos = Len(yielded)
          /\ global_pos = stream.next
          /\ Len(cache) = (IF global_pos < capacity THEN global_pos ELSE capacity)
          /\ \A p \in 0 .. (global_pos - 1) :
                p >= global_pos - capacity => cache[(p % size) + 1] = yielded[p + 1])
    /\ [][global_pos' # global_pos =>
            /\ global_pos' = global_pos + 1
            /\ Len(yielded') = Len(yielded) + 1
            /\ cache'[(global_pos % size) + 1] = yielded'[global_pos']
            /\ \E h \in Ids :
                  /\ Got(h) /\ pos[h] >= global_pos /\ pos'[h] = global_pos'
                  /\ res'[h].item = yielded'[global_pos']
                  /\ \A k \in Ids \ {h} : pos'[k] = pos[k] /\ cnt'[k] = cnt[k]]_vars
    /\ [][(stream' # stream \/ Len(wakable') > Len(wakable)) =>
            \E h \in Ids :
                  /\ kind[h] = "strong" \/ pc[h] = "upgraded"
                  /\ pos[h] >= global_pos
                  /\ res'[h].tag \in {"item", "end", "pending"}]_vars

\* two handles were at the same position: one drove the stream, the other
\* was served the same item from the cache
C13_Witness ==
    \E h, k \in Ids :
        /\ h # k /\ pos[h] = global_pos /\ pos[k] = global_pos
        /\ global_pos = MaxItems /\ Len(yielded) = MaxItems
        /\ res[h].tag = "item" /\ res[h].behind = 0
        /\ res[k].tag = "item" /\ res[k].behind = 1
        /\ res[h].item = res[k].item

\* C14 as claimed: the pos of a handle whose state exists is at most
\* global_pos + 1.
C14_Original ==
    \A h \in Ids : (Exists(h) /\ alive) => pos[h] <= global_pos + 1

\* C14, amended: the pos of a handle is at most global_pos until the
\* handle, or the handle it was made from, has been answered None; it is
\* above global_pos only when the stream is done; every None the state
\* answers moves the pos of the polled handle by exactly 1 and leaves
\* global_pos alone, so the pos passes global_pos + 1 with the second None.
C14_CursorBound ==
    /\ [](\A h \in Ids : Exists(h) =>
            /\ ~ended[h] => pos[h] <= global_pos
            /\ pos[h] > global_pos => (stream.done /\ ended[h]))
    /\ [][\A h \in Ids :
            (kind'[h] = kind[h] /\ res'[h].tag = "end" /\ pos'[h] # pos[h]) =>
                /\ pos[h] >= global_pos
                /\ pos'[h] = pos[h] + 1
                /\ global_pos' = global_pos]_vars

\* a handle answered None twice is two above global_pos, its state alive
C14_Witness ==
    \E h \in Ids :
        /\ kind[h] = "strong" /\ alive /\ res[h].tag = "end"
        /\ global_pos > 0 /\ pos[h] = global_pos + 2

\* C15: whenever poll_next hands a handle an item, the new pos is above
\* the old one and the offset new_pos - pos - 1 is the natural number of
\* positions passed over; the debug_assert of broadast_next never fires
\* (no poll panics); no operation on a handle lowers its pos; a handle
\* whose pos has passed global_pos is never handed an item, only None.
C15_PosGrows ==
    /\ [](\A h \in Ids : res[h].tag # "panic") /\ [](~poisoned)
    /\ [][\A h \in Ids : Got(h) =>
            /\ pos'[h] > pos[h]
            /\ res'[h].offset >= 0
            /\ res'[h].offset = pos'[h] - pos[h] - 1]_vars
    /\ [][\A h \in Ids : (Exists(h) /\ kind'[h] = kind[h]) => pos'[h] >= pos[h]]_vars
    /\ [][\A h \in Ids : (Exists(h) /\ pos[h] > global_pos /\ kind'[h] = kind[h]) =>
            /\ cnt'[h] = cnt[h]
            /\ res'[h] # res[h] => res'[h].tag \in {"end", "gone"}]_vars

\* a lagging handle is handed an item past evicted ones while another
\* handle has been pushed past global_pos by repeated None
C15_Witness ==
    \E h, k \in Ids :
        /\ res[h].tag = "item" /\ res[h].offset > 0
        /\ res[k].tag = "end" /\ pos[k] > global_pos + 1 /\ Exists(k)

\* C16 as claimed: wakable holds at most one entry per id.
C16_OneEntryPerId ==
    \A i, j \in 1 .. Len(wakable) : i # j => wakable[i] # wakable[j]

\* the ids registered in wakable
Registered == { wakable[i] : i \in 1 .. Len(wakable) }

\* C17: in every step in which the stream yields an item to a poll_next of
\* handle k, wakable is left empty, the Waker of every registered id other
\* than k is woken in that step, and k is not woken (its earlier wake-up,
\* if any, is used up by this poll); an id is given to one handle only, so
\* every registered handle other than the caller is among the woken.
C17_AdvanceWakesOthers ==
    /\ [][\A k \in Ids : (Got(k) /\ global_pos' = global_pos + 1) =>
            /\ wakable' = << >>
            /\ Registered \ {k} \subseteq woken'
            /\ woken' \ woken \subseteq Registered \ {k}
            /\ k \notin woken']_vars
    /\ [][\A n \in Ids : kind[n] = "none" /\ kind'[n] # "none" =>
            /\ n = ID_COUNTER /\ ID_COUNTER' = n + 1
            /\ \A h \in Ids : Exists(h) => h < n]_vars
    /\ [](\A h \in Registered : h < ID_COUNTER)

\* a handle at the head was handed the first item: the weak handle that
\* was waiting is woken and wakable is empty, the caller is not woken
C17_Witness ==
    \E k, h \in Ids :
        /\ k # h /\ res[k].tag = "item" /\ res[k].behind = 0 /\ pos[k] = global_pos
        /\ res[h].tag = "pending" /\ Exists(h)
        /\ wakable = << >> /\ woken = {h}
        /\ cnt[k] = 1 /\ cnt[h] = 0 /\ how[h] = "downgrade"

\* a poll_next of handle h takes the lock in this step (for a weak handle:
\* its state was there to upgrade), and it shows in what it returned or
\* in the handle's pos
PollSeen(h) ==
    /\ kind[h] = "strong" \/ (kind[h] = "weak" /\ pc[h] = "upgraded")
    /\ kind'[h] = kind[h]
    /\ res'[h] # res[h] \/ pos'[h] # pos[h]

\* C18: a poll_next of a handle whose pos is below global_pos returns an
\* item, never Pending and never None, and leaves the stream, global_pos,
\* the cache and wakable as they were; no Waker is woken and no other
\* handle changes; the id registered by a Pending poll is never that of a
\* handle that was behind.
C18_BehindLeavesState ==
    /\ [][\A h \in Ids : (PollSeen(h) /\ global_pos > pos[h]) =>
            /\ res'[h].tag = "item"
            /\ Got(h)
            /\ pos'[h] <= global_pos
            /\ core' = core
            /\ kind[h] = "strong" => alive' = alive
            /\ woken' \subseteq woken
            /\ \A k \in Ids \ {h} : pos'[k] = pos[k] /\ res'[k] = res[k]]_vars
    /\ [][Len(wakable') > Len(wakable) =>
            /\ wakable' = Append(wakable, wakable'[Len(wakable')])
            /\ pos[wakable'[Len(wakable')]] >= global_pos]_vars

\* a handle was served from the cache while another one is registered
C18_Witness ==
    \E h, k \in Ids :
        /\ h # k /\ res[h].tag = "item" /\ res[h].behind > 0
        /\ wakable = << k >> /\ res[k].tag = "pending" /\ pos[k] = global_pos
        /\ ~stream.done

\* C19 as claimed: a poll_next of a handle whose is_terminated() is true
\* returns None.
C19_TerminatedIsEnd ==
    [][\A h \in Ids : (PollSeen(h) /\ is_terminated(h)) => res'[h].tag = "end"]_vars

\* C20: the state answers a handle None only when the handle is not behind
\* global_pos (and the stream is done); a handle that is behind is handed
\* the cached item of the skip rule, also after the stream has ended and
\* other handles were answered None, and reaches global_pos before it is
\* answered None itself.
C20_EndAfterCache ==
    /\ [][\A h \in Ids : (PollSeen(h) /\ res'[h].tag = "end") =>
            pos[h] >= global_pos /\ stream'.done]_vars
    /\ [][\A h \in Ids : (PollSeen(h) /\ global_pos > pos[h] /\ stream.done) =>
            /\ Got(h)
            /\ pos'[h] = 1 + (IF global_pos - pos[h] > size
                                THEN global_pos - size ELSE pos[h])
            /\ res'[h].item = yielded[pos'[h]]]_vars
    /\ [](\A h \in Ids : res[h].tag = "end" => pos[h] > global_pos)
    /\ [](late_item => stream.done /\ global_pos > 0)

\* after the stream ended and a handle was answered None, a handle that
\* was more than capacity behind has been handed the oldest cached item
C20_Witness ==
    \E h, k \in Ids :
        /\ h # k /\ late_item
        /\ res[k].tag = "end" /\ Exists(k)
        /\ res[h].tag = "item" /\ res[h].offset > 0 /\ cnt[h] = 1
        /\ res[h].item = yielded[pos[h]]

====
